---- MODULE Spec2Model ----
(***************************************************************************)
(* A model of phrasematcher-rs (src/src/main.rs): the vocabulary builders, *)
(* the pattern compiler, the two checksums and the span-matching query of  *)
(* PhraseMatcher, with the two persisted files vocab.p and patterns.p.     *)
(*                                                                         *)
(* Text is a sequence of bytes.  A file is a sequence of lines, each a     *)
(* text.  A u32 checksum is kept as the pair <<high 16 bits, low 16 bits>> *)
(* so that its full width is represented.                                  *)
(***************************************************************************)
EXTENDS Integers, Sequences, FiniteSets, Bags, TLC

(***************************************************************************)
(* Bounds of the model.                                                    *)
(***************************************************************************)
\* lines of a pattern corpus
MaxLines == 2
\* tokens on one corpus line
MaxToks == 2
\* lines of a vocabulary file
MaxVocabLines == 2
\* tokens of a query sentence
MaxSentLen == 3
\* largest max_len argument tried
MaxMaxLen == 2
\* lines of a pattern or vocabulary file, and tokens of a sentence, where the
\* process is run again on the directory an earlier run left (SpecR)
MaxLinesR == 1
MaxSentLenR == 2

(***************************************************************************)
(* Bytes and text helpers (std::str).                                      *)
(***************************************************************************)
SPACE == 32

Whitespace == {9, 10, 11, 12, 13, SPACE}

\* str::to_lowercase on the ASCII range
to_lowercase(s) ==
  [k \in 1..Len(s) |-> IF s[k] >= 65 /\ s[k] <= 90 THEN s[k] + 32 ELSE s[k]]

RECURSIVE TrimStart(_)
TrimStart(s) ==
  IF s # <<>> /\ Head(s) \in Whitespace THEN TrimStart(Tail(s)) ELSE s

RECURSIVE TrimEnd(_)
TrimEnd(s) ==
  IF s # <<>> /\ s[Len(s)] \in Whitespace
    THEN TrimEnd(SubSeq(s, 1, Len(s) - 1))
    ELSE s

\* str::trim
trim(s) == TrimEnd(TrimStart(s))

\* str::split_whitespace: the maximal runs of non-whitespace bytes, in order
RECURSIVE SplitFrom(_, _, _, _)
SplitFrom(s, k, cur, acc) ==
  IF k > Len(s)
    THEN IF cur = <<>> THEN acc ELSE Append(acc, cur)
    ELSE IF s[k] \in Whitespace
           THEN SplitFrom(s, k + 1, <<>>, IF cur = <<>> THEN acc ELSE Append(acc, cur))
           ELSE SplitFrom(s, k + 1, Append(cur, s[k]), acc)

split_whitespace(s) == SplitFrom(s, 1, <<>>, <<>>)

\* the tokenizer main() passes to PhraseMatcher::new
tokenizer(s) == split_whitespace(s)

\* [T]::join(" ")
RECURSIVE join(_)
join(toks) ==
  IF toks = <<>> THEN <<>>
  ELSE IF Len(toks) = 1 THEN toks[1]
  ELSE toks[1] \o <<SPACE>> \o join(Tail(toks))

(***************************************************************************)
(* Inputs: the texts the operations are tried on.                          *)
(***************************************************************************)
\* the tokens "a", "b", "c" of patterns and sentences
Tokens == {<<97>>, <<98>>, <<99>>}

SeqsUpTo(S, n) == UNION {[1..m -> S] : m \in 0..n}

\* a line of text: up to n tokens separated by single spaces
Lines(n) == {join(ts) : ts \in SeqsUpTo(Tokens, n)}

\* the lines of a pattern file: the token lines, and the line "B"
CorpusLines == Lines(MaxToks) \cup {<<66>>}

\* pattern files; an unreadable file gives the same result as the empty one
Corpora == SeqsUpTo(CorpusLines, MaxLines)

\* the lines of a vocabulary file: "", "a", "b c" and "C"
VocabLines == {<<>>, <<97>>, <<98, SPACE, 99>>, <<67>>}

VocabFiles == SeqsUpTo(VocabLines, MaxVocabLines)

Sentences == Lines(MaxSentLen)

\* the smaller inputs of the runs that follow one another on one directory
CorporaR == SeqsUpTo(CorpusLines, MaxLinesR)
VocabFilesR == SeqsUpTo(VocabLines, MaxLinesR)
SentencesR == Lines(MaxSentLenR)

\* every text a checksum is taken of
Texts == Lines(IF MaxToks > MaxSentLen THEN MaxToks ELSE MaxSentLen)

(***************************************************************************)
(* Checksums.                                                              *)
(***************************************************************************)
\* bit k of the byte or 16-bit half n
Bit(n, k) == (n \div (2 ^ k)) % 2

\* the reflected IEEE polynomial 0xEDB88320, as the set of its one bits
PolyBits == {5, 8, 9, 15, 19, 20, 21, 23, 24, 26, 27, 29, 30, 31}

\* one step of the bitwise CRC: shift right, xor the polynomial if a one fell out
CrcShift(c) ==
  LET sh == [k \in 0..31 |-> IF k = 31 THEN 0 ELSE c[k + 1]]
  IN  IF c[0] = 1
        THEN [k \in 0..31 |-> IF k \in PolyBits THEN 1 - sh[k] ELSE sh[k]]
        ELSE sh

RECURSIVE CrcShifts(_, _)
CrcShifts(c, n) == IF n = 0 THEN c ELSE CrcShifts(CrcShift(c), n - 1)

CrcByte(c, b) ==
  CrcShifts([k \in 0..31 |-> IF k < 8 THEN (c[k] + Bit(b, k)) % 2 ELSE c[k]], 8)

RECURSIVE CrcBytes(_, _)
CrcBytes(c, s) == IF s = <<>> THEN c ELSE CrcBytes(CrcByte(c, Head(s)), Tail(s))

RECURSIVE BitsValue(_, _, _)
BitsValue(c, lo, n) ==
  IF n = 0 THEN 0 ELSE c[lo] + 2 * BitsValue(c, lo + 1, n - 1)

\* crc::crc32::checksum_ieee: initial value and final xor 0xFFFFFFFF
checksum_ieee(s) ==
  LET c == CrcBytes([k \in 0..31 |-> 1], s)
      f == [k \in 0..31 |-> 1 - c[k]]
  IN  <<BitsValue(f, 16, 16), BitsValue(f, 0, 16)>>

\* checksum_ieee of the texts of the model, computed once
CrcTable == [s \in Texts |-> checksum_ieee(s)]

\* PhraseMatcher::crc32: the checksum modulo 0xFFFFFFFF
crc32(text) ==
  LET crc == IF text \in Texts THEN CrcTable[text] ELSE checksum_ieee(text)
  IN  IF crc = <<65535, 65535>> THEN <<0, 0>> ELSE crc

\* PhraseMatcher::fletcher; the codes of the model are far below 2^32, so the
\* cast `*v as u32` keeps their value and sum1 + v cannot overflow
RECURSIVE FletcherFrom(_, _, _)
FletcherFrom(arr, sum1, sum2) ==
  IF arr = <<>>
    THEN (sum1 * 256) + sum2
    ELSE LET s1 == (sum1 + Head(arr)) % 255
             s2 == (sum2 + s1) % 255
         IN  FletcherFrom(Tail(arr), s1, s2)

fletcher(arr) == FletcherFrom(arr, 0, 0)

\* Option<&str>: None is the empty sequence, Some(x) the sequence <<x>>
None == <<>>
Some(x) == <<x>>
Options(S) == {None} \cup {Some(x) : x \in S}

(***************************************************************************)
(* The matcher's data (struct PhraseMatcher, struct Patterns).             *)
(***************************************************************************)
\* HashMap::new()
EmptyMap == [t \in {} |-> 0]

\* HashMap::insert: the value of an existing key is replaced
MapInsert(m, key, v) ==
  [t \in (DOMAIN m) \cup {key} |-> IF t = key THEN v ELSE m[t]]

\* Patterns::new
Patterns_new == [lengths |-> {}, b_ints |-> {}, e_ints |-> {}, checksums |-> {}]

\* the content of a file of the model directory
Missing == [st |-> "missing"]
Corrupt == [st |-> "corrupt"]
Stored(v) == [st |-> "ok", val |-> v]

VARIABLES
  pc,            \* where main is: "start", "new", "vocab", "compile", "ready", "matched",
                 \* or "panic" after an index or arithmetic panic
  pattern_file,  \* main's pattern_file: None or the lines of the file
  vocab_file,    \* main's vocab_file: None or the lines of the file
  max_len,       \* main's max_len
  vocab,         \* PhraseMatcher.vocab
  inv_vocab,     \* PhraseMatcher.inv_vocab
  patterns,      \* PhraseMatcher.patterns
  ci,            \* compile: the number of the line the loop is at (from 1)
  vocab_p,       \* the file model_dir/vocab.p
  patterns_p,    \* the file model_dir/patterns.p
  io_fail,       \* the files the file system fails to write in full
  tok,           \* match_phrase: the tokens of the last sentence
  remove_subset, \* match_phrase: the flag of the last call
  candidates,    \* match_phrase: the candidate set after the scan
  kept,          \* match_phrase: the candidate set after the removal
  results        \* match_phrase: the returned strings, as a bag

vars == <<pc, pattern_file, vocab_file, max_len, vocab, inv_vocab, patterns, ci,
          vocab_p, patterns_p, io_fail, tok, remove_subset, candidates, kept, results>>

matchVars == <<tok, remove_subset, candidates, kept, results>>
argVars == <<pattern_file, vocab_file, max_len>>
diskVars == <<vocab_p, patterns_p, io_fail>>

\* a process that has not called PhraseMatcher::new yet, in an empty directory
Fresh ==
  /\ pc = "start"
  /\ pattern_file = None
  /\ vocab_file = None
  /\ max_len = 0
  /\ vocab = EmptyMap
  /\ inv_vocab = EmptyMap
  /\ patterns = Patterns_new
  /\ ci = 0
  /\ vocab_p = Missing
  /\ patterns_p = Missing
  /\ tok = <<>>
  /\ remove_subset = FALSE
  /\ candidates = {}
  /\ kept = {}
  /\ results = EmptyBag

\* the file system writes every file in full
Init == Fresh /\ io_fail = {}

(***************************************************************************)
(* PhraseMatcher::new, up to the choice between building and loading.      *)
(***************************************************************************)
\* PF, VF: the pattern_file and vocab_file arguments tried
new(PF, VF) ==
  /\ pc = "start"
  /\ \E pf \in PF, vf \in VF, ml \in 1..MaxMaxLen :
       /\ pattern_file' = pf
       /\ vocab_file' = vf
       /\ max_len' = ml
  /\ vocab' = EmptyMap
  /\ inv_vocab' = EmptyMap
  /\ patterns' = Patterns_new
  /\ pc' = "new"
  /\ UNCHANGED <<ci, diskVars, matchVars>>

(***************************************************************************)
(* Vocabulary builders.                                                    *)
(***************************************************************************)
\* read_vocab's loop: the first token of each line gets the current size
RECURSIVE ReadVocabLines(_, _)
ReadVocabLines(wc, lines) ==
  IF lines = <<>> THEN wc
  ELSE LET parts == tokenizer(trim(to_lowercase(Head(lines))))
       IN  ReadVocabLines(
             IF parts # <<>> THEN MapInsert(wc, parts[1], Cardinality(DOMAIN wc)) ELSE wc,
             Tail(lines))

\* build_vocab's inner loop: one more occurrence of each word
RECURSIVE CountWords(_, _)
CountWords(wc, words) ==
  IF words = <<>> THEN wc
  ELSE LET w == Head(words)
       IN  CountWords(MapInsert(wc, w, (IF w \in DOMAIN wc THEN wc[w] ELSE 0) + 1),
                      Tail(words))

\* build_vocab's loop over the lines
RECURSIVE BuildVocabLines(_, _)
BuildVocabLines(wc, lines) ==
  IF lines = <<>> THEN wc
  ELSE BuildVocabLines(CountWords(wc, tokenizer(trim(to_lowercase(Head(lines))))),
                       Tail(lines))

\* the inverse maps the sort can give: the words by value, largest first; the
\* order among equal values is the hash map's iteration order, so any
InvVocabs(wc) ==
  LET n == Cardinality(DOMAIN wc)
  IN  {f \in [0..(n - 1) -> DOMAIN wc] :
         /\ \A x, y \in 0..(n - 1) : x # y => f[x] # f[y]
         /\ \A x, y \in 0..(n - 1) : x < y => wc[f[x]] >= wc[f[y]]}

\* bincode::serialize_into a created (truncated) file: written, or left unreadable
\* when the write fails (the failure is only logged)
Serialized(name, v) == IF name \in io_fail THEN Corrupt ELSE Stored(v)

read_vocab ==
  /\ pc = "new"
  /\ pattern_file # None
  /\ vocab_file # None
  /\ vocab' = ReadVocabLines(EmptyMap, vocab_file[1])
  /\ inv_vocab' \in InvVocabs(vocab')
  /\ vocab_p' = Serialized("vocab.p", vocab')
  /\ pc' = "vocab"
  /\ UNCHANGED <<argVars, patterns, ci, patterns_p, io_fail, matchVars>>

build_vocab ==
  /\ pc = "new"
  /\ pattern_file # None
  /\ vocab_file = None
  /\ vocab' = BuildVocabLines(EmptyMap, pattern_file[1])
  /\ inv_vocab' \in InvVocabs(vocab')
  /\ vocab_p' = Serialized("vocab.p", vocab')
  /\ pc' = "vocab"
  /\ UNCHANGED <<argVars, patterns, ci, patterns_p, io_fail, matchVars>>

(***************************************************************************)
(* Pattern compiler.                                                       *)
(***************************************************************************)
\* Resolve, had a token without a code been passed over instead of ending the pattern
RECURSIVE Resolve_SkipMissing(_, _, _)
Resolve_SkipMissing(v, p_arr, p_ints) ==
  IF p_arr = <<>> THEN p_ints
  ELSE IF Head(p_arr) \in DOMAIN v
         THEN Resolve_SkipMissing(v, Tail(p_arr), Append(p_ints, v[Head(p_arr)]))
         ELSE Resolve_SkipMissing(v, Tail(p_arr), p_ints)

\* the codes of the tokens; cleared as soon as one token has no code
RECURSIVE Resolve(_, _, _)
Resolve(v, p_arr, p_ints) ==
  IF p_arr = <<>> THEN p_ints
  ELSE IF Head(p_arr) \in DOMAIN v
         THEN Resolve(v, Tail(p_arr), Append(p_ints, v[Head(p_arr)]))
         ELSE <<>>

\* Skipped, without the test of the length against max_len
Skipped_NoMaxLen(p_len, p_ints, ml) == p_ints = <<>>

\* whether the loop body `continue`s before it inserts
Skipped(p_len, p_ints, ml) == p_len > ml \/ p_ints = <<>>

\* whether an index of the insertions is out of range (p_ints[0], p_ints[p_len - 1])
IndexPanics(p_len, p_ints) == p_len - 1 < 0 \/ p_len - 1 >= Len(p_ints)

\* the insertions made before the index panics: p_len, and the first code if any
InsertedBeforePanic(pats, p_len, p_ints) ==
  [pats EXCEPT !.lengths = @ \cup {p_len},
               !.b_ints = IF p_ints = <<>> THEN @ ELSE @ \cup {p_ints[1]}]

\* the four insertions of one pattern
Inserted(pats, p_arr, p_ints) ==
  LET p_len == Len(p_arr)
      p_c == crc32(join(p_arr))
      p_f == fletcher(p_ints)
  IN  [lengths   |-> pats.lengths \cup {p_len},
       b_ints    |-> pats.b_ints \cup {p_ints[1]},
       e_ints    |-> pats.e_ints \cup {p_ints[p_len]},
       checksums |-> pats.checksums \cup {<<p_c, p_f>>}]

\* compile, up to its loop
compile ==
  /\ pc = "vocab"
  /\ patterns' = Patterns_new
  /\ ci' = 1
  /\ pc' = "compile"
  /\ UNCHANGED <<argVars, vocab, inv_vocab, diskVars, matchVars>>

\* one pass of compile's loop, on line ci of the pattern file
compile_line ==
  /\ pc = "compile"
  /\ ci <= Len(pattern_file[1])
  /\ LET p_arr == split_whitespace(trim(pattern_file[1][ci]))
         p_len == Len(p_arr)
         p_ints == Resolve(vocab, p_arr, <<>>)
     IN  IF Skipped(p_len, p_ints, max_len)
           THEN /\ patterns' = patterns
                /\ pc' = pc
           ELSE IF IndexPanics(p_len, p_ints)
                  THEN /\ patterns' = InsertedBeforePanic(patterns, p_len, p_ints)
                       /\ pc' = "panic"
                  ELSE /\ patterns' = Inserted(patterns, p_arr, p_ints)
                       /\ pc' = pc
  /\ ci' = ci + 1
  /\ UNCHANGED <<argVars, vocab, inv_vocab, diskVars, matchVars>>

\* the end of compile: the filter is written, and new returns
compile_save ==
  /\ pc = "compile"
  /\ ci > Len(pattern_file[1])
  /\ patterns_p' = Serialized("patterns.p", patterns)
  /\ pc' = "ready"
  /\ UNCHANGED <<argVars, vocab, inv_vocab, patterns, ci, vocab_p, io_fail, matchVars>>

(***************************************************************************)
(* Loading.                                                                *)
(***************************************************************************)
\* bincode::deserialize_from an opened file, or the default the field keeps
Loaded(file, default) == IF file.st = "ok" THEN file.val ELSE default

load_saved_data ==
  /\ pc = "new"
  /\ pattern_file = None
  /\ vocab' = Loaded(vocab_p, vocab)
  /\ patterns' = Loaded(patterns_p, patterns)
  /\ pc' = "ready"
  /\ UNCHANGED <<argVars, inv_vocab, ci, diskVars, matchVars>>

(***************************************************************************)
(* Query.                                                                  *)
(***************************************************************************)
\* the codes of the sentence's tokens, 0 for a token without a code
TokInts(v, t) == [k \in 1..Len(t) |-> IF t[k] \in DOMAIN v THEN v[t[k]] ELSE 0]

\* tok_ints[i..=j] and tok[i..=j], positions counted from 0
Slice(s, i, j) == SubSeq(s, i + 1, j + 1)

\* the scan reaches `i + p_len - 1` with i = 0 and p_len = 0: the subtraction
\* underflows (a panic, or a wrapped index the slice then rejects)
ScanPanics(pats, tok_ints) ==
  /\ tok_ints # <<>>
  /\ tok_ints[1] \in pats.b_ints
  /\ 0 \in pats.lengths

\* Accepts, without the test for the sentinel 0 among the codes of the span
Accepts_NoSentinel(pats, t, tok_ints, i, p_len) ==
  LET j == i + p_len - 1
  IN  /\ tok_ints[i + 1] \in pats.b_ints
      /\ ~(j + 1 > Len(tok_ints))
      /\ tok_ints[j + 1] \in pats.e_ints
      /\ <<crc32(join(Slice(t, i, j))), fletcher(Slice(tok_ints, i, j))>> \in pats.checksums

\* Accepts, with the sequence checksum compared and the text checksum ignored
Accepts_NoTextChecksum(pats, t, tok_ints, i, p_len) ==
  LET j == i + p_len - 1
  IN  /\ tok_ints[i + 1] \in pats.b_ints
      /\ ~(j + 1 > Len(tok_ints))
      /\ ~(\E k \in (i + 1)..(j + 1) : tok_ints[k] = 0)
      /\ tok_ints[j + 1] \in pats.e_ints
      /\ \E c \in pats.checksums : c[2] = fletcher(Slice(tok_ints, i, j))

\* whether the scan records the span (i, i + p_len - 1)
Accepts(pats, t, tok_ints, i, p_len) ==
  LET j == i + p_len - 1
  IN  /\ tok_ints[i + 1] \in pats.b_ints
      /\ ~(j + 1 > Len(tok_ints))
      /\ ~(\E k \in (i + 1)..(j + 1) : tok_ints[k] = 0)
      /\ tok_ints[j + 1] \in pats.e_ints
      /\ <<crc32(join(Slice(t, i, j))), fletcher(Slice(tok_ints, i, j))>> \in pats.checksums

\* Candidates, with the end of a span recorded one position short
Candidates_EndShort(pats, t, tok_ints) ==
  {<<i, i + p_len - 2>> : <<i, p_len>> \in
     {ip \in (0..(Len(t) - 1)) \X pats.lengths : Accepts(pats, t, tok_ints, ip[1], ip[2])}}

\* the candidate set after the scan
Candidates(pats, t, tok_ints) ==
  {<<i, i + p_len - 1>> : <<i, p_len>> \in
     {ip \in (0..(Len(t) - 1)) \X pats.lengths : Accepts(pats, t, tok_ints, ip[1], ip[2])}}

\* ShouldRemove, with strict comparisons of the bounds
ShouldRemove_Strict(cands, s) ==
  \E t \in cands : ~(s[1] = t[1] /\ s[2] = t[2]) /\ t[1] < s[1] /\ s[2] < t[2]

\* whether the removal marks the span s
ShouldRemove(cands, s) ==
  \E t \in cands : ~(s[1] = t[1] /\ s[2] = t[2]) /\ t[1] <= s[1] /\ s[2] <= t[2]

\* the candidate set after the removal
RemoveSubset(cands) == cands \ {s \in cands : ShouldRemove(cands, s)}

\* the strings pushed for the spans, in no particular order
RECURSIVE Joined(_, _)
Joined(t, spans) ==
  IF spans = {} THEN EmptyBag
  ELSE LET s == CHOOSE x \in spans : TRUE
       IN  Joined(t, spans \ {s}) (+) SetToBag({join(Slice(t, s[1], s[2]))})

\* main's one call of match_phrase; S: the sentences tried
match_phrase(S) ==
  /\ pc = "ready"
  /\ \E sentence \in S, rs \in BOOLEAN :
       LET t == tokenizer(trim(sentence))
           tok_ints == TokInts(vocab, t)
       IN  /\ tok' = t
           /\ remove_subset' = rs
           /\ IF ScanPanics(patterns, tok_ints)
                THEN /\ pc' = "panic"
                     /\ UNCHANGED <<candidates, kept, results>>
                ELSE /\ pc' = "matched"
                     /\ candidates' = Candidates(patterns, t, tok_ints)
                     /\ kept' = IF rs THEN RemoveSubset(candidates') ELSE candidates'
                     /\ results' = Joined(t, kept')
  /\ UNCHANGED <<argVars, vocab, inv_vocab, patterns, ci, diskVars>>

\* the process ends; what it wrote stays in the model directory
exit ==
  /\ pc \in {"ready", "matched", "panic"}
  /\ pc' = "start"
  /\ pattern_file' = None
  /\ vocab_file' = None
  /\ max_len' = 0
  /\ vocab' = EmptyMap
  /\ inv_vocab' = EmptyMap
  /\ patterns' = Patterns_new
  /\ ci' = 0
  /\ tok' = <<>>
  /\ remove_subset' = FALSE
  /\ candidates' = {}
  /\ kept' = {}
  /\ results' = EmptyBag
  /\ UNCHANGED diskVars

(***************************************************************************)
(* Spec: one run of main in an empty model directory.                      *)
(***************************************************************************)
Next ==
  \/ new(Options(Corpora), Options(VocabFiles))
  \/ read_vocab
  \/ build_vocab
  \/ compile
  \/ compile_line
  \/ compile_save
  \/ load_saved_data
  \/ match_phrase(Sentences)

Spec == Init /\ [][Next]_vars

(***************************************************************************)
(* SpecR: runs of main one after another on the same model directory, on a *)
(* file system that may fail to write either file.                         *)
(***************************************************************************)
InitR == Fresh /\ io_fail \in SUBSET {"vocab.p", "patterns.p"}

NextR ==
  \/ new(Options(CorporaR), Options(VocabFilesR))
  \/ read_vocab
  \/ build_vocab
  \/ compile
  \/ compile_line
  \/ compile_save
  \/ load_saved_data
  \/ match_phrase(SentencesR)
  \/ exit

SpecR == InitR /\ [][NextR]_vars

(***************************************************************************)
(* Properties.                                                             *)
(***************************************************************************)
\* the matcher was built from a pattern file in this run
Built == pattern_file # None

\* the tokens of line k of the pattern file, as compile splits it
PatternTokens(k) == split_whitespace(trim(pattern_file[1][k]))

\* line k of the pattern file is one compile keeps: not empty, within max_len,
\* every token in the vocabulary
Compilable(k) ==
  LET p_arr == PatternTokens(k)
  IN  /\ p_arr # <<>>
      /\ Len(p_arr) <= max_len
      /\ \A x \in 1..Len(p_arr) : p_arr[x] \in DOMAIN vocab

\* the span s contains the span r
Contains(s, r) == s[1] <= r[1] /\ r[2] <= s[2]

\* C1: a compiled pattern found as a contiguous run of tokens at i..j of a
\* sentence is recorded as the candidate (i, j), and its text is returned
C1_ExactMembership ==
  (pc = "matched" /\ ~remove_subset /\ Built) =>
    \A k \in 1..Len(pattern_file[1]) :
      Compilable(k) =>
        LET p_arr == PatternTokens(k)
            n == Len(p_arr)
        IN  \A i \in 0..(Len(tok) - n) :
              Slice(tok, i, i + n - 1) = p_arr =>
                /\ <<i, i + n - 1>> \in candidates
                /\ BagIn(join(p_arr), results)

\* C2: after a vocabulary build no two tokens have the same code
C2_CodesUnique ==
  (Built /\ pc \in {"vocab", "compile", "ready", "matched"}) =>
    \A s, t \in DOMAIN vocab : s # t => vocab[s] # vocab[t]

\* the first tokens of the non-empty lines of a vocabulary file, in file order
RECURSIVE FirstTokens(_)
FirstTokens(lines) ==
  IF lines = <<>> THEN <<>>
  ELSE LET parts == tokenizer(trim(to_lowercase(Head(lines))))
       IN  (IF parts = <<>> THEN <<>> ELSE <<parts[1]>>) \o FirstTokens(Tail(lines))

\* the sequential code of the earliest occurrence of w: the number of distinct
\* tokens before it
EarliestCode(firsts, w) ==
  LET e == CHOOSE k \in 1..Len(firsts) :
             firsts[k] = w /\ \A x \in 1..(k - 1) : firsts[x] # w
  IN  Cardinality({firsts[x] : x \in 1..(e - 1)})

\* C3: read_vocab gives each first token the sequential code of its earliest
\* occurrence in the file
C3_EarliestCode ==
  (pc = "vocab" /\ vocab_file # None) =>
    LET firsts == FirstTokens(vocab_file[1])
    IN  /\ DOMAIN vocab = {firsts[k] : k \in 1..Len(firsts)}
        /\ \A w \in DOMAIN vocab : vocab[w] = EarliestCode(firsts, w)

\* C4: the removal drops exactly the candidates contained in another
\* candidate, leaves no survivor inside another survivor, and removing again
\* changes nothing
C4_MaximalReduction ==
  pc = "matched" =>
    LET r == RemoveSubset(candidates)
    IN  /\ remove_subset => kept = r
        /\ candidates \ r = {s \in candidates : \E t \in candidates : t # s /\ Contains(t, s)}
        /\ \A s, t \in r : s # t => ~Contains(t, s)
        /\ RemoveSubset(r) = r

\* a removal that dropped a candidate and kept two
C4_Witness ==
  /\ pc = "matched"
  /\ remove_subset
  /\ kept # candidates
  /\ Cardinality(kept) >= 2

\* C5: every candidate has a length of the filter, a first code in b_ints, a
\* last code in e_ints, and ends inside the sentence
C5_FilterCorrect ==
  pc = "matched" =>
    LET tok_ints == TokInts(vocab, tok)
    IN  \A s \in candidates :
          /\ (s[2] - s[1] + 1) \in patterns.lengths
          /\ s[1] >= 0
          /\ s[2] < Len(tok)
          /\ tok_ints[s[1] + 1] \in patterns.b_ints
          /\ tok_ints[s[2] + 1] \in patterns.e_ints

\* candidates of two lengths, with more than one first code in the filter
C5_Witness ==
  /\ pc = "matched"
  /\ \E s, t \in candidates : s[2] - s[1] # t[2] - t[1]
  /\ Cardinality(patterns.b_ints) >= 2
  /\ Cardinality(candidates) < Len(tok) * Cardinality(patterns.lengths)

\* C6: no candidate covers a token that is absent from the vocabulary, and so
\* no returned match holds one
C6_NoOov ==
  pc = "matched" =>
    /\ \A s \in candidates : \A k \in s[1]..s[2] : tok[k + 1] \in DOMAIN vocab
    /\ \A m \in BagToSet(results) :
         \A w \in {split_whitespace(m)[k] : k \in 1..Len(split_whitespace(m))} :
           w \in DOMAIN vocab

\* a sentence with a token absent from the vocabulary whose span passes every
\* other test of the scan: boundary codes, length and both checksums
C6_Witness ==
  /\ pc = "matched"
  /\ \E k \in 1..Len(tok) :
       /\ tok[k] \notin DOMAIN vocab
       /\ 0 \in patterns.b_ints
       /\ 0 \in patterns.e_ints
       /\ 1 \in patterns.lengths
       /\ <<crc32(tok[k]), fletcher(<<0>>)>> \in patterns.checksums

\* C7: one pass of compile's loop leaves the four sets as they were when the
\* line is empty, longer than max_len or has a token absent from the
\* vocabulary, and otherwise inserts into all four
C7_AtomicContribution ==
  [][(pc = "compile" /\ ci' = ci + 1) =>
       LET p_arr == PatternTokens(ci)
           n == Len(p_arr)
       IN  IF Compilable(ci)
             THEN /\ patterns'.lengths = patterns.lengths \cup {n}
                  /\ patterns'.b_ints = patterns.b_ints \cup {vocab[p_arr[1]]}
                  /\ patterns'.e_ints = patterns.e_ints \cup {vocab[p_arr[n]]}
                  /\ patterns'.checksums = patterns.checksums \cup
                       {<<crc32(join(p_arr)), fletcher([x \in 1..n |-> vocab[p_arr[x]]])>>}
             ELSE patterns' = patterns]_vars

\* the loop has passed a line with a token absent from the vocabulary, with
\* another token that is present, and a line it inserted
C7_Witness ==
  /\ pc = "compile"
  /\ \E k \in 1..(ci - 1) :
       LET p_arr == PatternTokens(k)
       IN  /\ Len(p_arr) <= max_len
           /\ \E x \in 1..Len(p_arr) : p_arr[x] \notin DOMAIN vocab
           /\ \E x \in 1..Len(p_arr) : p_arr[x] \in DOMAIN vocab
  /\ \E k \in 1..(ci - 1) : Compilable(k)
  /\ patterns.lengths # {}

\* the text "a b"
TextAB == <<97, SPACE, 98>>
\* the text "c"
TextC == <<99>>

\* the run of the scenario: build_vocab and compile on ["a b", "c"] with
\* max_len 2, then match_phrase("a b c", false)
C8_Scenario ==
  /\ pc = "matched"
  /\ vocab_file = None
  /\ pattern_file = Some(<<TextAB, TextC>>)
  /\ max_len = 2
  /\ tok = <<<<97>>, <<98>>, <<99>>>>
  /\ ~remove_subset

\* C8: in the scenario the lengths are {1, 2} and the matches are exactly
\* "a b" and "c"
C8_ConcreteScenario ==
  C8_Scenario =>
    /\ patterns.lengths = {1, 2}
    /\ candidates = {<<0, 1>>, <<2, 2>>}
    /\ results = SetToBag({TextAB, TextC})

\* the scenario has run and returned something
C8_Witness == C8_Scenario /\ results # EmptyBag

\* C9: every first and last code of the filter is the code of a token of the
\* vocabulary, however the matcher was constructed
C9_FilterCodesInVocab ==
  pc \in {"ready", "matched"} =>
    \A c \in patterns.b_ints \cup patterns.e_ints :
      \E t \in DOMAIN vocab : vocab[t] = c

\* C10: a compiled filter holds only lengths 1..max_len, every inserted
\* pattern has as many codes as tokens, and neither the index p_len - 1 nor
\* the end position i + p_len - 1 leaves its range
C10_LengthBounds ==
  /\ pc # "panic"
  /\ (Built /\ pc \in {"compile", "ready", "matched"}) =>
       \A n \in patterns.lengths : 1 <= n /\ n <= max_len
  /\ pc = "compile" =>
       \A k \in 1..(ci - 1) :
         LET p_arr == PatternTokens(k)
             p_ints == Resolve(vocab, p_arr, <<>>)
         IN  ~Skipped(Len(p_arr), p_ints, max_len) => Len(p_ints) = Len(p_arr)
  /\ pc = "matched" =>
       \A s \in candidates : 0 <= s[1] /\ s[1] <= s[2] /\ s[2] < Len(tok)

\* a line longer than max_len, its tokens all in the vocabulary, was passed
\* over, another line was inserted, and the query found it
C10_Witness ==
  /\ pc = "matched"
  /\ Built
  /\ \E k \in 1..Len(pattern_file[1]) :
       /\ Len(PatternTokens(k)) > max_len
       /\ \A x \in 1..Len(PatternTokens(k)) : PatternTokens(k)[x] \in DOMAIN vocab
  /\ candidates # {}

====
